---- MODULE Spec2Model ----
(***************************************************************************)
(* State-machine model of the traffic signal server (backend Server.js,    *)
(* Firebase/SSE revision): the two paired lights, the amber-delay timers,  *)
(* the Firestore gate document poll/push, the SSE broadcast hub and the    *)
(* MQTT vehicle-telemetry merge.                                           *)
(*                                                                         *)
(* Every handler of the server runs to completion on the Node event loop,  *)
(* so each handler, timer callback and promise continuation is one action. *)
(***************************************************************************)
EXTENDS Naturals, Sequences, FiniteSets, Bags, TLC

\* ------------------------------------------------------------------ bounds
MaxTimers == 2      \* pending amber-delay setTimeout callbacks
MaxPatches == 2     \* Firestore PATCH requests in flight
MaxPolls == 1       \* Firestore GET results fetched and not yet applied
MaxTime == 1        \* clock readings after the first (new Date())
MaxCount == 1       \* largest number carried by a telemetry payload

\* --------------------------------------------------------------- constants
LightIds == {"light1", "light2"}
RequestIds == LightIds \cup {"light3"}      \* :lightId of a request; light3 does not exist
Actions == {"green", "red", "yellow", "toggle"}
Directions == {"inbound", "outbound"}
Modes == {"automatic", "manual"}
VehicleTypes == {"car", "truck", "bus", "motorcycle", "emergency"}
SpeedFields == {"bspeed", "cspeed", "mspeed", "tspeed"}
GateFields == {"gate01", "gate02"}
Clients == {"c1", "c2"}
None == "none"
firebaseIntegrationEnabled == TRUE

VARIABLES
  trafficLights,        \* lightId -> [state, lastUpdated]
  trafficFlow,          \* [mode, currentDirection, lastChanged]
  vehicleData,          \* the telemetry record
  firebaseGateMirror,   \* lightId -> BOOLEAN
  firestore,            \* the remote gate document: field -> BOOLEAN
  timers,               \* pending setTimeout(…, 1000) callbacks, in scheduling order
  patches,              \* bag of PATCH requests in flight: [lightId, isGreen]
  fetched,              \* bag of GET results awaiting applyFirebaseGateStates
  initialSyncPending,   \* the 'initial' sync of startFirebaseSyncLoop has not fetched yet
  sseClients,           \* registered SSE clients
  heartbeats,           \* clients whose heartbeat interval timer is active
  received,             \* client -> the state events written to it, latest only
  streams,              \* client -> its response stream: new, open, broken, closed
  now,                  \* the clock read by new Date()
  sent,                 \* broadcastStateUpdate calls of the last step (payloads)
  threw,                \* clients whose res.write threw in the last step
  pushed,               \* updateFirebaseGateState calls of the last step
  last                  \* the last step taken: [op, id, action, status]

hubVars == <<sseClients, heartbeats, received, streams>>
syncVars == <<firebaseGateMirror, firestore, patches, fetched, initialSyncPending>>
vars == <<trafficLights, trafficFlow, vehicleData, firebaseGateMirror, firestore,
          timers, patches, fetched, initialSyncPending, sseClients, heartbeats,
          received, streams, now, sent, threw, pushed, last>>

\* ----------------------------------------------------------------- helpers
OtherLight(lightId) == IF lightId = "light1" THEN "light2" ELSE "light1"

Step(op, id, action, status) ==
  [op |-> op, id |-> id, action |-> action, status |-> status]

\* light.state = s; light.lastUpdated = new Date().toISOString()
SetState(tl, lightId, s, t) ==
  [tl EXCEPT ![lightId] = [state |-> s, lastUpdated |-> t]]

gateFieldName(gateKey) ==
  IF gateKey \in {"gate1", "light1"} THEN "gate01"
  ELSE IF gateKey \in {"gate2", "light2"} THEN "gate02"
  ELSE gateKey

lightIdToGateKey(lightId) ==
  IF lightId \in {"gate1", "light1"} THEN "gate1"
  ELSE IF lightId \in {"gate2", "light2"} THEN "gate2"
  ELSE None

gateKeyToLightId(gateKey) ==
  IF gateKey \in {"gate1", "light1"} THEN "light1"
  ELSE IF gateKey \in {"gate2", "light2"} THEN "light2"
  ELSE None

booleanToLightState(value) == IF value THEN "green" ELSE "red"

\* ------------------------------------------------------ the broadcast hub
createSSEPayload(reason, tl, tf, vd, t) ==
  [type |-> "traffic-state", reason |-> reason, timestamp |-> t,
   lights |-> tl, trafficFlow |-> tf, vehicleData |-> vd]

\* Variant: the forEach stops at the first write that throws, so nobody is
\* written once a client has failed.
broadcastStopsAtFailure(reason, tl, tf, vd) ==
  \E failed \in SUBSET sseClients :
    LET payload == createSSEPayload(reason, tl, tf, vd, now) IN
    /\ sent' = <<payload>>
    /\ threw' = failed
    /\ sseClients' = sseClients \ failed
    /\ heartbeats' = heartbeats \ failed
    /\ received' = [c \in Clients |->
                      IF failed = {} /\ c \in sseClients /\ streams[c] = "open"
                      THEN <<payload>> ELSE received[c]]
    /\ UNCHANGED streams

\* broadcastStateUpdate(reason) on the state (tl, tf, vd) the handler has just
\* written: every registered client is written the payload; a client whose
\* write throws is removed and its heartbeat timer cleared.  A write on a
\* broken stream throws or is discarded; it never delivers.
broadcastStateUpdate(reason, tl, tf, vd) ==
  \E failed \in SUBSET sseClients :
    LET payload == createSSEPayload(reason, tl, tf, vd, now) IN
    /\ sent' = <<payload>>
    /\ threw' = failed
    /\ sseClients' = sseClients \ failed
    /\ heartbeats' = heartbeats \ failed
    /\ received' = [c \in Clients |->
                      IF c \in sseClients \ failed /\ streams[c] = "open"
                      THEN <<payload>> ELSE received[c]]
    /\ UNCHANGED streams

NoBroadcast == sent' = <<>> /\ threw' = {} /\ UNCHANGED hubVars

\* --------------------------------------------------- external gate pushes
Push(lightId, isGreen) == [lightId |-> lightId, isGreen |-> isGreen]

RECURSIVE SeqToBag(_)
SeqToBag(s) ==
  IF s = <<>> THEN EmptyBag ELSE SetToBag({Head(s)}) (+) SeqToBag(Tail(s))

\* updateFirebaseGateState(lightId, isGreen), called for each element of calls:
\* runs up to its fetch(), which puts one PATCH request in flight.
updateFirebaseGateState(calls) ==
  /\ pushed' = calls
  /\ patches' = IF firebaseIntegrationEnabled
                THEN patches (+) SeqToBag(SelectSeq(calls,
                                   LAMBDA c : lightIdToGateKey(c.lightId) # None))
                ELSE patches

RoomForPatches(n) == BagCardinality(patches) + n <= MaxPatches

\* --------------------------------------------------------------- the start
InitVehicleData ==
  [bspeed |-> 0, cspeed |-> 0, mspeed |-> 0, tspeed |-> 0,
   total_vehicles_counted |-> 0,
   vehicles_by_type |-> [v \in VehicleTypes |-> 0],
   car_count |-> 0, truck_count |-> 0, bus_count |-> 0,
   motorcycle_count |-> 0, emergency_count |-> 0,
   vehicles_waiting |-> 0, priority_vehicles |-> 0,
   green_light_duration |-> 20, vehicles_per_minute |-> 0,
   anomalies |-> <<>>, timestamp |-> 0]

Init ==
  /\ trafficLights = [l \in LightIds |-> [state |-> "red", lastUpdated |-> 0]]
  /\ trafficFlow = [mode |-> "automatic", currentDirection |-> "inbound",
                    lastChanged |-> 0]
  /\ vehicleData = InitVehicleData
  /\ firebaseGateMirror = [l \in LightIds |-> FALSE]
  /\ firestore = [f \in GateFields |-> FALSE]
  /\ timers = <<>>
  /\ patches = EmptyBag
  /\ fetched = EmptyBag
  /\ initialSyncPending = TRUE
  /\ sseClients = {}
  /\ heartbeats = {}
  /\ received = [c \in Clients |-> <<>>]
  /\ streams = [c \in Clients |-> "new"]
  /\ now = 0
  /\ sent = <<>>
  /\ threw = {}
  /\ pushed = <<>>
  /\ last = Step("init", None, None, 200)

\* ------------------------------------------- the per-light state machine
\* Variant: the command writes the terminal phase at once, without the amber step.
GreenAnnounceSkipsAmber(tl, lightId, t) ==
  LET a == SetState(tl, lightId, "green", t)
      o == OtherLight(lightId)
  IN IF a[o].state = "green" THEN SetState(a, o, "yellow", t) ELSE a

\* action === 'green': the light goes yellow, and a green other light with it
GreenAnnounce(tl, lightId, t) ==
  LET a == SetState(tl, lightId, "yellow", t)
      o == OtherLight(lightId)
  IN IF a[o].state = "green" THEN SetState(a, o, "yellow", t) ELSE a

\* Variant: the completion leaves the other light as it is.
GreenCompleteKeepsOther(tl, lightId, t) == SetState(tl, lightId, "green", t)

\* the setTimeout callback of action === 'green'
GreenComplete(tl, lightId, t) ==
  LET a == SetState(tl, lightId, "green", t)
      o == OtherLight(lightId)
  IN IF a[o].state # "red" THEN SetState(a, o, "red", t) ELSE a

\* action === 'red'
RedAnnounce(tl, lightId, t) == SetState(tl, lightId, "yellow", t)

\* Variant: the red completion also stamps the paired light.
RedCompleteStampsOther(tl, lightId, t) ==
  [l \in LightIds |->
     IF l = lightId THEN [state |-> "red", lastUpdated |-> t]
     ELSE [tl[l] EXCEPT !.lastUpdated = t]]

\* the setTimeout callback of action === 'red'
RedComplete(tl, lightId, t) == SetState(tl, lightId, "red", t)

\* Variant: a yellow command takes both lights to yellow.
YellowSetBoth(tl, lightId, t) ==
  [l \in LightIds |-> [state |-> "yellow", lastUpdated |-> t]]

\* action === 'yellow'
YellowSet(tl, lightId, t) == SetState(tl, lightId, "yellow", t)

\* action === 'toggle', light.state === 'green'
ToggleGreenAnnounce(tl, lightId, t) == SetState(tl, lightId, "yellow", t)

\* its setTimeout callback
ToggleGreenComplete(tl, lightId, t) == SetState(tl, lightId, "red", t)

\* Variant: the toggle only takes a green other light to yellow.
ToggleRedAnnounceOtherOnly(tl, lightId, t) ==
  LET o == OtherLight(lightId)
  IN IF tl[o].state = "green" THEN SetState(tl, o, "yellow", t) ELSE tl

\* action === 'toggle', light.state === 'red'
ToggleRedAnnounce(tl, lightId, t) ==
  LET a == SetState(tl, lightId, "yellow", t)
      o == OtherLight(lightId)
  IN IF a[o].state = "green" THEN SetState(a, o, "yellow", t) ELSE a

\* Variant: the completion turns the other light red only from yellow.
ToggleRedCompleteFromYellow(tl, lightId, t) ==
  LET a == SetState(tl, lightId, "green", t)
      o == OtherLight(lightId)
  IN IF a[o].state = "yellow" THEN SetState(a, o, "red", t) ELSE a

\* its setTimeout callback
ToggleRedComplete(tl, lightId, t) ==
  LET a == SetState(tl, lightId, "green", t)
      o == OtherLight(lightId)
  IN IF a[o].state # "red" THEN SetState(a, o, "red", t) ELSE a

\* Variant: a toggle of a yellow light completes it to green.
ToggleYellowToGreen(tl, lightId, t) == SetState(tl, lightId, "green", t)

\* action === 'toggle', light yellow: straight to red
ToggleYellow(tl, lightId, t) == SetState(tl, lightId, "red", t)

\* POST /api/traffic-flow with a direction: both lights yellow, then both green
FlowAnnounce(tl, t) ==
  SetState(SetState(tl, "light1", "yellow", t), "light2", "yellow", t)

\* Variant: the completion goes through the pairwise-exclusive path.
FlowCompleteExclusive(tl, t) ==
  SetState(SetState(tl, "light1", "green", t), "light2", "red", t)

FlowComplete(tl, t) ==
  SetState(SetState(tl, "light1", "green", t), "light2", "green", t)

\* Variant: a light that is already red is left red.
StopAnnounceSkipsRed(tl, t) ==
  [l \in LightIds |->
     IF tl[l].state = "red" THEN tl[l] ELSE [state |-> "yellow", lastUpdated |-> t]]

\* POST /api/emergency-stop: both lights yellow, then both red
StopAnnounce(tl, t) ==
  SetState(SetState(tl, "light1", "yellow", t), "light2", "yellow", t)

StopComplete(tl, t) ==
  SetState(SetState(tl, "light1", "red", t), "light2", "red", t)

\* A pending setTimeout callback: the closure's kind and captured variables.
Timer(kind, lightId, direction) ==
  [kind |-> kind, lightId |-> lightId, direction |-> direction]

\* Variant: scheduling a completion cancels the pending ones.
ScheduleReplacing(t) == timers' = <<t>>

Schedule(t) == timers' = Append(timers, t)

\* Variant: the not-found answer is also announced to the subscribers.
NotFoundBroadcasts ==
  /\ UNCHANGED <<trafficLights, timers, patches>>
  /\ pushed' = <<>>
  /\ broadcastStateUpdate(<<"control", None, None>>,
                          trafficLights, trafficFlow, vehicleData)

\* if (!trafficLights[lightId]) return res.status(404).json(...)
NotFound ==
  /\ UNCHANGED <<trafficLights, timers, patches>>
  /\ pushed' = <<>>
  /\ NoBroadcast

\* ---- POST /api/lights/:lightId/control
Control(id, action) ==
  /\ last' = Step("control", id, action,
                  IF id \in DOMAIN trafficLights THEN 200 ELSE 404)
  /\ UNCHANGED <<trafficFlow, vehicleData, firebaseGateMirror, firestore, fetched,
                 initialSyncPending, now>>
  /\ IF id \notin DOMAIN trafficLights
     THEN NotFound
     ELSE CASE action = "green" ->
                 /\ Len(timers) < MaxTimers
                 /\ trafficLights' = GreenAnnounce(trafficLights, id, now)
                 /\ Schedule(Timer("green", id, None))
                 /\ updateFirebaseGateState(<<>>)
                 /\ broadcastStateUpdate(<<"control", id, "yellow">>,
                                         trafficLights', trafficFlow, vehicleData)
            [] action = "red" ->
                 /\ Len(timers) < MaxTimers
                 /\ trafficLights' = RedAnnounce(trafficLights, id, now)
                 /\ Schedule(Timer("red", id, None))
                 /\ updateFirebaseGateState(<<>>)
                 /\ broadcastStateUpdate(<<"control", id, "yellow">>,
                                         trafficLights', trafficFlow, vehicleData)
            [] action = "yellow" ->
                 /\ trafficLights' = YellowSet(trafficLights, id, now)
                 /\ UNCHANGED timers
                 /\ updateFirebaseGateState(<<>>)
                 /\ broadcastStateUpdate(<<"control", id, "yellow">>,
                                         trafficLights', trafficFlow, vehicleData)
            [] action = "toggle" /\ trafficLights[id].state = "green" ->
                 /\ Len(timers) < MaxTimers
                 /\ trafficLights' = ToggleGreenAnnounce(trafficLights, id, now)
                 /\ Schedule(Timer("toggleRed", id, None))
                 /\ updateFirebaseGateState(<<>>)
                 /\ broadcastStateUpdate(<<"control", id, "yellow">>,
                                         trafficLights', trafficFlow, vehicleData)
            [] action = "toggle" /\ trafficLights[id].state = "red" ->
                 /\ Len(timers) < MaxTimers
                 /\ trafficLights' = ToggleRedAnnounce(trafficLights, id, now)
                 /\ Schedule(Timer("toggleGreen", id, None))
                 /\ updateFirebaseGateState(<<>>)
                 /\ broadcastStateUpdate(<<"control", id, "yellow">>,
                                         trafficLights', trafficFlow, vehicleData)
            [] action = "toggle" /\ trafficLights[id].state \notin {"green", "red"} ->
                 /\ RoomForPatches(1)
                 /\ trafficLights' = ToggleYellow(trafficLights, id, now)
                 /\ UNCHANGED timers
                 /\ updateFirebaseGateState(<<Push(id, FALSE)>>)
                 /\ broadcastStateUpdate(<<"control", id, "red">>,
                                         trafficLights', trafficFlow, vehicleData)

\* ---- the amber-delay completions (setTimeout callbacks, 1000 ms)
TimerLights(tm, tl, t) ==
  CASE tm.kind = "green" -> GreenComplete(tl, tm.lightId, t)
    [] tm.kind = "red" -> RedComplete(tl, tm.lightId, t)
    [] tm.kind = "toggleRed" -> ToggleGreenComplete(tl, tm.lightId, t)
    [] tm.kind = "toggleGreen" -> ToggleRedComplete(tl, tm.lightId, t)
    [] tm.kind = "flow" -> FlowComplete(tl, t)
    [] tm.kind = "estop" -> StopComplete(tl, t)

\* Variant: a green completion pushes for its own light only.
TimerPushesOwnOnly(tm) ==
  CASE tm.kind \in {"green", "toggleGreen"} -> <<Push(tm.lightId, TRUE)>>
    [] tm.kind \in {"red", "toggleRed"} -> <<Push(tm.lightId, FALSE)>>
    [] tm.kind = "flow" -> <<Push("light1", TRUE), Push("light2", TRUE)>>
    [] tm.kind = "estop" -> <<Push("light1", FALSE), Push("light2", FALSE)>>

TimerPushes(tm) ==
  CASE tm.kind \in {"green", "toggleGreen"} ->
         <<Push(tm.lightId, TRUE), Push(OtherLight(tm.lightId), FALSE)>>
    [] tm.kind \in {"red", "toggleRed"} -> <<Push(tm.lightId, FALSE)>>
    [] tm.kind = "flow" -> <<Push("light1", TRUE), Push("light2", TRUE)>>
    [] tm.kind = "estop" -> <<Push("light1", FALSE), Push("light2", FALSE)>>

TimerReason(tm) ==
  CASE tm.kind \in {"green", "toggleGreen"} -> <<"control", tm.lightId, "green">>
    [] tm.kind \in {"red", "toggleRed"} -> <<"control", tm.lightId, "red">>
    [] tm.kind = "flow" -> <<"traffic-flow", tm.direction>>
    [] tm.kind = "estop" -> <<"emergency-stop", "red">>

\* Variant: the callback scheduled last fires first.
FireTimerNewestFirst ==
  /\ timers # <<>>
  /\ LET tm == timers[Len(timers)] IN
     /\ RoomForPatches(Len(TimerPushes(tm)))
     /\ trafficLights' = TimerLights(tm, trafficLights, now)
     /\ timers' = SubSeq(timers, 1, Len(timers) - 1)
     /\ updateFirebaseGateState(TimerPushes(tm))
     /\ broadcastStateUpdate(TimerReason(tm), trafficLights', trafficFlow, vehicleData)
     /\ last' = Step("timer", tm.lightId, tm.kind, 200)
  /\ UNCHANGED <<trafficFlow, vehicleData, firebaseGateMirror, firestore, fetched,
                 initialSyncPending, now>>

\* Timers of one duration fire in the order they were scheduled.
FireTimer ==
  /\ timers # <<>>
  /\ LET tm == Head(timers) IN
     /\ RoomForPatches(Len(TimerPushes(tm)))
     /\ trafficLights' = TimerLights(tm, trafficLights, now)
     /\ timers' = Tail(timers)
     /\ updateFirebaseGateState(TimerPushes(tm))
     /\ broadcastStateUpdate(TimerReason(tm), trafficLights', trafficFlow, vehicleData)
     /\ last' = Step("timer", tm.lightId, tm.kind, 200)
  /\ UNCHANGED <<trafficFlow, vehicleData, firebaseGateMirror, firestore, fetched,
                 initialSyncPending, now>>

\* ---- POST /api/traffic-flow; an absent (or falsy) body field is None
\* Variant: a mode change also stamps lastChanged.
FlowModeStampsChange(tf, mode) ==
  IF mode # None THEN [tf EXCEPT !.mode = mode, !.lastChanged = now] ELSE tf

FlowMode(tf, mode) == IF mode # None THEN [tf EXCEPT !.mode = mode] ELSE tf

FlowDirection(tf, direction, t) ==
  [tf EXCEPT !.currentDirection = direction, !.lastChanged = t]

TrafficFlow(mode, direction) ==
  /\ last' = Step("traffic-flow", mode, direction, 200)
  /\ UNCHANGED <<vehicleData, firebaseGateMirror, firestore, fetched,
                 initialSyncPending, now>>
  /\ updateFirebaseGateState(<<>>)
  /\ IF direction # None
     THEN /\ Len(timers) < MaxTimers
          /\ trafficFlow' = FlowDirection(FlowMode(trafficFlow, mode), direction, now)
          /\ trafficLights' = FlowAnnounce(trafficLights, now)
          /\ Schedule(Timer("flow", None, direction))
          /\ broadcastStateUpdate(<<"traffic-flow", "yellow-phase">>,
                                  trafficLights', trafficFlow', vehicleData)
     ELSE /\ trafficFlow' = FlowMode(trafficFlow, mode)
          /\ UNCHANGED <<trafficLights, timers>>
          /\ NoBroadcast

\* ---- POST /api/emergency-stop
EmergencyStop ==
  /\ Len(timers) < MaxTimers
  /\ trafficLights' = StopAnnounce(trafficLights, now)
  /\ Schedule(Timer("estop", None, None))
  /\ updateFirebaseGateState(<<>>)
  /\ broadcastStateUpdate(<<"emergency-stop", "yellow">>,
                          trafficLights', trafficFlow, vehicleData)
  /\ last' = Step("emergency-stop", None, None, 200)
  /\ UNCHANGED <<trafficFlow, vehicleData, firebaseGateMirror, firestore, fetched,
                 initialSyncPending, now>>

\* ------------------------------------------------ external authority sync
\* Variant: each light reads the other light's gate field.
GateStatesCrossed(doc) == [light1 |-> doc["gate02"], light2 |-> doc["gate01"]]

\* fetchGateStatesFromFirebase: the document as read by the GET, or null (None)
\* when the request fails or answers !res.ok.
GateStates(doc) == [light1 |-> doc["gate01"], light2 |-> doc["gate02"]]

\* syncGatesFromFirebase up to its await: 'initial' from startFirebaseSyncLoop,
\* 'interval' from its setInterval.
PollFetch(ok) ==
  /\ firebaseIntegrationEnabled
  /\ BagCardinality(fetched) < MaxPolls
  /\ LET origin == IF initialSyncPending THEN "initial" ELSE "interval" IN
     /\ fetched' = IF ok
                   THEN fetched (+) SetToBag({[origin |-> origin,
                                               states |-> GateStates(firestore)]})
                   ELSE fetched
     /\ last' = Step("fetch", None, None, IF ok THEN 200 ELSE 500)
  /\ initialSyncPending' = FALSE
  /\ pushed' = <<>>
  /\ NoBroadcast
  /\ UNCHANGED <<trafficLights, trafficFlow, vehicleData, firebaseGateMirror,
                 firestore, timers, patches, now>>

\* Variant: a light in its amber phase is left to its completion.
ApplyStatesSkipsAmber(tl, states, t) ==
  [l \in LightIds |->
     IF tl[l].state # "yellow" /\ tl[l].state # booleanToLightState(states[l])
     THEN [state |-> booleanToLightState(states[l]), lastUpdated |-> t]
     ELSE tl[l]]

\* Variant: every polled light is stamped, changed or not.
ApplyStatesStampsAll(tl, states, t) ==
  [l \in LightIds |->
     [state |-> booleanToLightState(states[l]), lastUpdated |-> t]]

\* applyFirebaseGateStates: the lights after the forEach over both entries
ApplyStates(tl, states, t) ==
  [l \in LightIds |->
     IF tl[l].state # booleanToLightState(states[l])
     THEN [state |-> booleanToLightState(states[l]), lastUpdated |-> t]
     ELSE tl[l]]

ApplyMirror(mirror, states) == [l \in LightIds |-> states[l]]

\* syncGatesFromFirebase after its await: applyFirebaseGateStates(result, reason)
PollApply(r) ==
  /\ BagIn(r, fetched)
  /\ fetched' = fetched (-) SetToBag({r})
  /\ trafficLights' = ApplyStates(trafficLights, r.states, now)
  /\ firebaseGateMirror' = ApplyMirror(firebaseGateMirror, r.states)
  /\ IF \E l \in LightIds : trafficLights[l].state # booleanToLightState(r.states[l])
     THEN broadcastStateUpdate(<<"firebase", r.origin>>,
                               trafficLights', trafficFlow, vehicleData)
     ELSE NoBroadcast
  /\ pushed' = <<>>
  /\ last' = Step("apply", None, None, 200)
  /\ UNCHANGED <<trafficFlow, vehicleData, firestore, timers, patches,
                 initialSyncPending, now>>

\* Variant: a failed PATCH puts the light back to the mirrored value.
PatchDoneRevertsOnFailure(p, ok) ==
  /\ BagIn(p, patches)
  /\ patches' = patches (-) SetToBag({p})
  /\ IF ok
     THEN /\ firestore' = [firestore EXCEPT
                             ![gateFieldName(lightIdToGateKey(p.lightId))] = p.isGreen]
          /\ firebaseGateMirror' =
               [firebaseGateMirror EXCEPT
                  ![gateKeyToLightId(lightIdToGateKey(p.lightId))] = p.isGreen]
          /\ UNCHANGED trafficLights
     ELSE /\ UNCHANGED <<firestore, firebaseGateMirror>>
          /\ trafficLights' =
               SetState(trafficLights, p.lightId,
                        booleanToLightState(firebaseGateMirror[p.lightId]), now)
  /\ pushed' = <<>>
  /\ NoBroadcast
  /\ last' = Step("patch", None, None, IF ok THEN 200 ELSE 500)
  /\ UNCHANGED <<trafficFlow, vehicleData, timers, fetched,
                 initialSyncPending, now>>

\* updateFirebaseGateState after its await: the PATCH has written the field and
\* answered ok (the mirror is set), or it has failed (logged only).
PatchDone(p, ok) ==
  /\ BagIn(p, patches)
  /\ patches' = patches (-) SetToBag({p})
  /\ IF ok
     THEN /\ firestore' = [firestore EXCEPT
                             ![gateFieldName(lightIdToGateKey(p.lightId))] = p.isGreen]
          /\ firebaseGateMirror' =
               [firebaseGateMirror EXCEPT
                  ![gateKeyToLightId(lightIdToGateKey(p.lightId))] = p.isGreen]
     ELSE UNCHANGED <<firestore, firebaseGateMirror>>
  /\ pushed' = <<>>
  /\ NoBroadcast
  /\ last' = Step("patch", None, None, IF ok THEN 200 ELSE 500)
  /\ UNCHANGED <<trafficLights, trafficFlow, vehicleData, timers, fetched,
                 initialSyncPending, now>>

\* The physical controller (or anyone else) writes a gate field of the document.
ExternalWrite(field, value) ==
  /\ firestore[field] # value
  /\ firestore' = [firestore EXCEPT ![field] = value]
  /\ pushed' = <<>>
  /\ NoBroadcast
  /\ last' = Step("write", None, None, 200)
  /\ UNCHANGED <<trafficLights, trafficFlow, vehicleData, firebaseGateMirror,
                 timers, patches, fetched, initialSyncPending, now>>

\* Time passes: the next new Date() reads a later instant.
Tick ==
  /\ now < MaxTime
  /\ now' = now + 1
  /\ pushed' = <<>>
  /\ NoBroadcast
  /\ last' = Step("tick", None, None, 200)
  /\ UNCHANGED <<trafficLights, trafficFlow, vehicleData, firebaseGateMirror,
                 firestore, timers, patches, fetched, initialSyncPending>>

\* ------------------------------------------------------- SSE subscribers
\* registerSSEClient(res): the heartbeat interval is started, then the client
\* is added to the registry.
registerSSEClient(c) ==
  /\ heartbeats' = heartbeats \cup {c}
  /\ sseClients' = sseClients \cup {c}

\* Variant: the client's initial payload is not written in the handler.
SubscribeLate(c, ok) ==
  /\ streams[c] = "new"
  /\ registerSSEClient(c)
  /\ UNCHANGED received
  /\ streams' = [streams EXCEPT ![c] = IF ok THEN "open" ELSE "broken"]
  /\ threw' = IF ok THEN {} ELSE {c}
  /\ sent' = <<>>
  /\ pushed' = <<>>
  /\ last' = Step("subscribe", c, None, IF ok THEN 200 ELSE 500)
  /\ UNCHANGED <<trafficLights, trafficFlow, vehicleData, timers, now>>
  /\ UNCHANGED syncVars

\* GET /api/lights/stream by a connection not seen before: register, write the
\* 'initial' payload, listen for 'close'.  If the write throws, the handler
\* ends there: the client stays registered and no 'close' listener exists.
Subscribe(c, ok) ==
  /\ streams[c] = "new"
  /\ registerSSEClient(c)
  /\ IF ok
     THEN /\ received' = [received EXCEPT ![c] =
                            <<createSSEPayload(<<"initial">>, trafficLights,
                                               trafficFlow, vehicleData, now)>>]
          /\ streams' = [streams EXCEPT ![c] = "open"]
          /\ threw' = {}
     ELSE /\ UNCHANGED received
          /\ streams' = [streams EXCEPT ![c] = "broken"]
          /\ threw' = {c}
  /\ sent' = <<>>
  /\ pushed' = <<>>
  /\ last' = Step("subscribe", c, None, IF ok THEN 200 ELSE 500)
  /\ UNCHANGED <<trafficLights, trafficFlow, vehicleData, timers, now>>
  /\ UNCHANGED syncVars

\* Variant: deleting flips membership.
deleteClientFlips(set, c) == IF c \in set THEN set \ {c} ELSE set \cup {c}

\* Set.prototype.delete / clearInterval: removing what is absent changes nothing
deleteClient(set, c) == set \ {c}

\* req.on('close'): clearInterval(client.heartbeatTimer); sseClients.delete(client)
Disconnect(c) ==
  /\ streams[c] = "open"
  /\ heartbeats' = deleteClient(heartbeats, c)
  /\ sseClients' = deleteClient(sseClients, c)
  /\ streams' = [streams EXCEPT ![c] = "closed"]
  /\ UNCHANGED received
  /\ sent' = <<>>
  /\ threw' = {}
  /\ pushed' = <<>>
  /\ last' = Step("close", c, IF c \in sseClients THEN "registered" ELSE "removed", 200)
  /\ UNCHANGED <<trafficLights, trafficFlow, vehicleData, timers, now>>
  /\ UNCHANGED syncVars

\* Variant: a failed heartbeat write deletes the client and leaves its
\* interval running.
HeartbeatKeepsTimer(c, ok) ==
  /\ c \in heartbeats
  /\ IF ok
     THEN UNCHANGED sseClients /\ threw' = {}
     ELSE sseClients' = sseClients \ {c} /\ threw' = {c}
  /\ UNCHANGED <<heartbeats, received, streams>>
  /\ sent' = <<>>
  /\ pushed' = <<>>
  /\ last' = Step("heartbeat", c, None, IF ok THEN 200 ELSE 500)
  /\ UNCHANGED <<trafficLights, trafficFlow, vehicleData, timers, now>>
  /\ UNCHANGED syncVars

\* The heartbeat interval callback of client c (every 25 s while the timer is
\* active): a heartbeat frame is written; it is not a state event.
Heartbeat(c, ok) ==
  /\ c \in heartbeats
  /\ IF ok
     THEN UNCHANGED <<heartbeats, sseClients>> /\ threw' = {}
     ELSE /\ heartbeats' = heartbeats \ {c}
          /\ sseClients' = sseClients \ {c}
          /\ threw' = {c}
  /\ UNCHANGED <<received, streams>>
  /\ sent' = <<>>
  /\ pushed' = <<>>
  /\ last' = Step("heartbeat", c, None, IF ok THEN 200 ELSE 500)
  /\ UNCHANGED <<trafficLights, trafficFlow, vehicleData, timers, now>>
  /\ UNCHANGED syncVars

\* ------------------------------------------------------ telemetry merger
\* A message is its text: whether JSON.parse accepts it and, if so, the parsed
\* object, a function from the keys it carries to their values.
EmptyObject == [k \in {} |-> 0]
Json(data) == [valid |-> TRUE, json |-> data]
Malformed == [valid |-> FALSE, json |-> EmptyObject]
Has(data, key) == key \in DOMAIN data          \* data[key] !== undefined
Truthy(v) == v # 0

\* Variant: a present value replaces the prior one even when it is zero.
OrElseDefined(data, key, prior) ==
  IF Has(data, key) THEN data[key] ELSE prior

\* data[key] || prior
OrElse(data, key, prior) ==
  IF Has(data, key) /\ Truthy(data[key]) THEN data[key] ELSE prior

CountField(vehicleType) ==
  CASE vehicleType = "car" -> "car_count"
    [] vehicleType = "truck" -> "truck_count"
    [] vehicleType = "bus" -> "bus_count"
    [] vehicleType = "motorcycle" -> "motorcycle_count"
    [] vehicleType = "emergency" -> "emergency_count"

\* Variant: the spreads in the other order, { ...data, ...vehicleData }, so
\* that the prior value of a field wins over the payload's.
MergeMainPriorWins(vd, data, t) ==
  [k \in DOMAIN vd \cup DOMAIN data \cup {"timestamp"} |->
     IF k = "timestamp" THEN t
     ELSE IF k \in DOMAIN vd THEN vd[k] ELSE data[k]]

\* { ...vehicleData, ...data, timestamp: now }
MergeMain(vd, data, t) ==
  [k \in DOMAIN vd \cup DOMAIN data \cup {"timestamp"} |->
     IF k = "timestamp" THEN t
     ELSE IF k \in DOMAIN data THEN data[k] ELSE vd[k]]

MergeTrafficLight(vd, data, t) ==
  [vd EXCEPT !.green_light_duration = OrElse(data, "green_light_duration", @),
             !.vehicles_waiting = OrElse(data, "vehicles_waiting", @),
             !.priority_vehicles = OrElse(data, "priority_vehicles", @),
             !.timestamp = t]

MergeSpeeds(vd, data, t) ==
  [vd EXCEPT !.bspeed = OrElse(data, "bspeed", @),
             !.cspeed = OrElse(data, "cspeed", @),
             !.mspeed = OrElse(data, "mspeed", @),
             !.tspeed = OrElse(data, "tspeed", @),
             !.timestamp = t]

\* Variant: the scalar alias written is always car_count.
MergePerTypeCarAlias(vd, vehicleType, data, t) ==
  [vd EXCEPT !.vehicles_by_type[vehicleType] = data.count,
             !.car_count = data.count,
             !.timestamp = t]

\* the else branch, data.count !== undefined; the assignment to
\* vehicles_by_type[vehicleType] creates the entry when it is absent
MergePerType(vd, vehicleType, data, t) ==
  [vd EXCEPT !.vehicles_by_type =
                [k \in DOMAIN @ \cup {vehicleType} |->
                   IF k = vehicleType THEN data.count ELSE @[k]],
             ![CountField(vehicleType)] = data.count,
             !.timestamp = t]

\* Variant: the catch block stamps the record before it returns.
ParseErrorStamps ==
  /\ vehicleData' = [vehicleData EXCEPT !.timestamp = now]
  /\ NoBroadcast

\* catch (error) { console.error(...) }: JSON.parse threw, nothing was assigned
ParseError == UNCHANGED vehicleData /\ NoBroadcast

\* mqttClient.on('message'): topic is the last segment of the MQTT topic
\* ("vehicles" for the base topic traffic/vehicles).
MqttMessage(topic, message) ==
  /\ last' = Step("mqtt", topic, message.json, IF message.valid THEN 200 ELSE 400)
  /\ pushed' = <<>>
  /\ UNCHANGED <<trafficLights, trafficFlow, timers, now>>
  /\ UNCHANGED syncVars
  /\ IF ~message.valid
     THEN ParseError
     ELSE LET data == message.json IN
          CASE topic = "vehicles" ->
                 /\ vehicleData' = MergeMain(vehicleData, data, now)
                 /\ broadcastStateUpdate(<<"mqtt", "vehicle-data">>,
                                         trafficLights, trafficFlow, vehicleData')
            [] topic = "traffic_light" ->
                 /\ vehicleData' = MergeTrafficLight(vehicleData, data, now)
                 /\ broadcastStateUpdate(<<"mqtt", "traffic-light">>,
                                         trafficLights, trafficFlow, vehicleData')
            [] topic = "speeds" ->
                 /\ vehicleData' = MergeSpeeds(vehicleData, data, now)
                 /\ broadcastStateUpdate(<<"mqtt", "speeds">>,
                                         trafficLights, trafficFlow, vehicleData')
            [] OTHER ->
                 IF Has(data, "count")
                 THEN /\ vehicleData' = MergePerType(vehicleData, topic, data, now)
                      /\ broadcastStateUpdate(<<"mqtt", topic, "count">>,
                                              trafficLights, trafficFlow, vehicleData')
                 ELSE UNCHANGED vehicleData /\ NoBroadcast

\* Variant: the HTTP push merges only the keys the record already has.
PostVehiclesKnownKeys(data) ==
  /\ vehicleData' = [k \in DOMAIN vehicleData |->
                       IF k = "timestamp" THEN now
                       ELSE IF k \in DOMAIN data THEN data[k] ELSE vehicleData[k]]
  /\ broadcastStateUpdate(<<"vehicles", "update">>,
                          trafficLights, trafficFlow, vehicleData')
  /\ pushed' = <<>>
  /\ last' = Step("vehicles", None, data, 200)
  /\ UNCHANGED <<trafficLights, trafficFlow, timers, now>>
  /\ UNCHANGED syncVars

\* ---- POST /api/vehicles: the body is merged as a main-topic message is
PostVehicles(data) ==
  /\ vehicleData' = MergeMain(vehicleData, data, now)
  /\ broadcastStateUpdate(<<"vehicles", "update">>,
                          trafficLights, trafficFlow, vehicleData')
  /\ pushed' = <<>>
  /\ last' = Step("vehicles", None, data, 200)
  /\ UNCHANGED <<trafficLights, trafficFlow, timers, now>>
  /\ UNCHANGED syncVars

\* ----------------------------------------------------------- specifications
\* Requests and events, grouped by where they come from.
ControlAny == \E id \in LightIds, a \in Actions : Control(id, a)

ControlGreenToggle == \E id \in LightIds, a \in {"green", "toggle"} : Control(id, a)

ControlYellow == \E id \in LightIds : Control(id, "yellow")

ControlToggle == \E id \in LightIds : Control(id, "toggle")

FlowRequest == \E m \in {None, "manual"} : TrafficFlow(m, "outbound")

Patch == \E p \in DOMAIN patches, ok \in BOOLEAN : PatchDone(p, ok)

Fetch == \E ok \in BOOLEAN : PollFetch(ok)

Apply == \E r \in DOMAIN fetched : PollApply(r)

Write == \E f \in GateFields, v \in BOOLEAN : ExternalWrite(f, v)

\* Per-light control only: no flow-direction request, no poll.
NextControl == ControlAny \/ FireTimer \/ Patch

SpecControl == Init /\ [][NextControl]_vars

\* Toggles, flow-direction changes and emergency stops with their completions
\* and pushes.
Next == ControlToggle \/ FlowRequest \/ EmergencyStop \/ FireTimer \/ Patch

Spec == Init /\ [][Next]_vars

\* Control commands interleaved with the poll of the gate document.
NextSync == ControlGreenToggle \/ FireTimer \/ Patch \/ Fetch \/ Apply

SpecSync == Init /\ [][NextSync]_vars

\* The poll against a document written by the physical controller, with the
\* clock running.
NextPoll == ControlYellow \/ Fetch \/ Apply \/ Write \/ Tick

SpecPoll == Init /\ [][NextPoll]_vars

\* Telemetry payloads: numbers up to MaxCount under any subset of the keys.
CountPayloads == {[count |-> n] : n \in 0..MaxCount} \cup {EmptyObject}

SpeedPayloads == UNION {[S -> 0..MaxCount] : S \in SUBSET {"bspeed", "tspeed"}}

PerTypeMessage == \E v \in {"car", "truck", "emergency"}, d \in CountPayloads : MqttMessage(v, Json(d))

SpeedsMessage == \E d \in SpeedPayloads : MqttMessage("speeds", Json(d))

\* Per-type counts and speeds arriving over MQTT, with the clock running.
NextTelemetry == PerTypeMessage \/ SpeedsMessage \/ Tick

SpecTelemetry == Init /\ [][NextTelemetry]_vars

\* The broadcast hub with its subscribers, under handlers that change a light,
\* the flow record or the telemetry record.
Connect == \E c \in Clients, ok \in BOOLEAN : Subscribe(c, ok)
Close == \E c \in Clients : Disconnect(c)
Beat == \E c \in Clients, ok \in BOOLEAN : Heartbeat(c, ok)
FlowModeOnly == \E m \in Modes : TrafficFlow(m, None)
CarMessage == MqttMessage("car", Json([count |-> MaxCount]))

NextHub ==
  Connect \/ Close \/ Beat \/ ControlYellow \/ FlowModeOnly \/ CarMessage

SpecHub == Init /\ [][NextHub]_vars

\* Control requests, some of them for a light that does not exist.
ControlUnknown == \E a \in Actions : Control("light3", a)

NextRequests == ControlToggle \/ ControlUnknown \/ FireTimer \/ Patch

SpecRequests == Init /\ [][NextRequests]_vars

\* Whole-record payloads of the main topic and of POST /api/vehicles: a count
\* alias, a speed, a key the record does not have, and a vehicles_by_type map
\* that carries one category.
MainPayloads ==
  {[car_count |-> MaxCount], [bspeed |-> MaxCount], [lane |-> MaxCount],
   [vehicles_by_type |-> [car |-> MaxCount]]}

MainMessage == \E d \in MainPayloads : MqttMessage("vehicles", Json(d))

VehiclesPost == \E d \in MainPayloads : PostVehicles(d)

MalformedMessage == \E topic \in {"vehicles", "speeds", "car"} : MqttMessage(topic, Malformed)

\* Every way telemetry reaches the record, well-formed or not.
NextMerge ==
  MainMessage \/ VehiclesPost \/ PerTypeMessage \/ MalformedMessage \/ Tick

SpecMerge == Init /\ [][NextMerge]_vars

\* The commands that schedule a completion, and 'yellow', which schedules none:
\* every control request but a toggle of a yellow light.
ControlScheduling ==
  \E id \in LightIds, a \in Actions :
    /\ a = "toggle" => trafficLights[id].state # "yellow"
    /\ Control(id, a)

\* Those commands with the completions and the push responses.  The event
\* loop runs a due setTimeout callback and every PATCH request settles.
FlowDirect == TrafficFlow(None, "outbound")

NextLive ==
  ControlScheduling \/ FlowDirect \/ EmergencyStop \/ FireTimer \/ Patch

SpecLive ==
  Init /\ [][NextLive]_vars /\ WF_vars(FireTimer) /\ WF_vars(Patch)

\* One command at a time, polls between commands: a control request arrives
\* only when no completion, PATCH or poll result is outstanding, and the poll
\* interval fires only when no completion or PATCH is outstanding.  A PATCH may
\* fail; nobody else writes the document.
QuietControl ==
  /\ timers = <<>>
  /\ patches = EmptyBag
  /\ fetched = EmptyBag
  /\ ControlGreenToggle

QuietFetch ==
  /\ timers = <<>>
  /\ patches = EmptyBag
  /\ Fetch

NextSettle == QuietControl \/ FireTimer \/ Patch \/ QuietFetch \/ Apply

SpecSettle == Init /\ [][NextSettle]_vars

\* Polls against commands with fairness: a green request for light1 or a
\* toggle of light2 at any moment, the completions, the PATCH responses, and
\* the poll.  The event loop runs a due callback, every PATCH settles, and the
\* poll interval keeps fetching successfully and applying what it fetched.
ControlEither == Control("light1", "green") \/ Control("light2", "toggle")

NextConverge == ControlEither \/ FireTimer \/ Patch \/ Fetch \/ Apply

SpecConverge ==
  /\ Init /\ [][NextConverge]_vars
  /\ WF_vars(FireTimer) /\ WF_vars(Patch) /\ WF_vars(PollFetch(TRUE)) /\ WF_vars(Apply)

\* Green, red and yellow requests and their completions with the clock
\* running, so that every lastUpdated stamp tells when it was written.
ControlPlain ==
  \E id \in LightIds, a \in {"green", "red", "yellow"} : Control(id, a)

NextClock == ControlPlain \/ FireTimer \/ Patch \/ Tick

SpecClock == Init /\ [][NextClock]_vars

\* Every command that moves a light, with the completions and the PATCH
\* responses: the steps that may call updateFirebaseGateState.
NextPush == ControlAny \/ FlowDirect \/ EmergencyStop \/ FireTimer \/ Patch

SpecPush == Init /\ [][NextPush]_vars

\* Flow requests with a mode, a direction, both or neither, against lights
\* that toggles of light1 and the completions have moved, with the clock
\* running.
FlowAny ==
  \E m \in {None, "manual"}, d \in {None, "outbound"} : TrafficFlow(m, d)

NextFlow == FlowAny \/ Control("light1", "toggle") \/ FireTimer \/ Patch \/ Tick

SpecFlow == Init /\ [][NextFlow]_vars

\* Payloads of the traffic_light and speeds topics: every listed field absent,
\* zero or non-zero, two keys at a time, one of them sometimes a field of the
\* record that is not on the topic's list (car_count for traffic_light,
\* vehicles_waiting for speeds).
LightFields == {"green_light_duration", "vehicles_waiting", "priority_vehicles"}

PayloadsOver(keys) == UNION {[S -> 0..MaxCount] : S \in SUBSET keys}

LightPayloads ==
  PayloadsOver({"green_light_duration", "vehicles_waiting"})
    \cup PayloadsOver({"priority_vehicles", "car_count"})

SpeedsPayloads ==
  PayloadsOver({"bspeed", "cspeed"})
    \cup PayloadsOver({"mspeed", "vehicles_waiting"})
    \cup PayloadsOver({"tspeed", "vehicles_waiting"})

TrafficLightMessage == \E d \in LightPayloads : MqttMessage("traffic_light", Json(d))

SpeedFieldsMessage == \E d \in SpeedsPayloads : MqttMessage("speeds", Json(d))

NextFields == TrafficLightMessage \/ SpeedFieldsMessage

SpecFields == Init /\ [][NextFields]_vars

\* Whole-record payloads with a count and a speed absent, zero or non-zero, a
\* key the record does not have, a replacement vehicles_by_type map and a
\* timestamp of the sender's; they arrive on the main topic and by
\* POST /api/vehicles, between car counts, a yellow command, a mode change and
\* clock ticks.
MainFieldPayloads ==
  PayloadsOver({"car_count", "bspeed"})
    \cup {[lane |-> MaxCount], [vehicles_by_type |-> [car |-> MaxCount]],
          [timestamp |-> MaxCount, bspeed |-> 0]}

MainFieldMessage == \E d \in MainFieldPayloads : MqttMessage("vehicles", Json(d))

MainFieldPost == \E d \in MainFieldPayloads : PostVehicles(d)

NextMain ==
  \/ MainFieldMessage
  \/ MainFieldPost
  \/ CarMessage
  \/ Control("light1", "yellow")
  \/ TrafficFlow("manual", None)
  \/ Tick

SpecMain == Init /\ [][NextMain]_vars

\* ================================================================== claims
Phase(l) == trafficLights[l].state
IsGreenTimer(step) == step.op = "timer" /\ step.action \in {"green", "toggleGreen"}

\* C1: from both lights red, under per-light control commands and their amber
\* completions only, the two lights are never green at the same time.
C1_PairwiseExclusive == ~(Phase("light1") = "green" /\ Phase("light2") = "green")

\* A green completion has just fired while a green completion of the other
\* light is still pending.
C1_Witness ==
  /\ IsGreenTimer(last)
  /\ Phase(last.id) = "green"
  /\ timers # <<>>
  /\ Head(timers).kind = "green"
  /\ Head(timers).lightId = OtherLight(last.id)

\* C2: right after any green completion (of a green command or of a toggle of
\* a red light) its light is green and the paired light is red.
C2_GreenCompletionExclusive ==
  IsGreenTimer(last) =>
    /\ Phase(last.id) = "green"
    /\ Phase(OtherLight(last.id)) = "red"

\* A toggle's green completion has fired after the paired gate had been
\* mirrored as open, with a poll result still to be applied.
C2_Witness ==
  /\ last.op = "timer"
  /\ last.action = "toggleGreen"
  /\ firebaseGateMirror[OtherLight(last.id)]
  /\ fetched # EmptyBag
  /\ Phase(last.id) = "green"

\* C3: a green command sets its light yellow and broadcasts it yellow in the
\* command step, and only schedules the completion that sets it green; a green
\* completion fires only from the pending queue.
C3_GreenThroughYellow ==
  [][ /\ (last'.op = "control" /\ last'.action = "green") =>
           /\ trafficLights'[last'.id].state = "yellow"
           /\ Len(sent') = 1
           /\ sent'[1].reason = <<"control", last'.id, "yellow">>
           /\ sent'[1].lights[last'.id].state = "yellow"
           /\ timers' = Append(timers, Timer("green", last'.id, None))
      /\ (last'.op = "timer" /\ last'.action = "green") =>
           /\ timers # <<>>
           /\ Head(timers) = Timer("green", last'.id, None)
           /\ trafficLights'[last'.id].state = "green" ]_vars

\* A green command has just been answered: the light shows yellow in the
\* broadcast and its completion is the last one scheduled.
C3_Witness ==
  /\ last.op = "control"
  /\ last.action = "green"
  /\ Len(sent) = 1
  /\ sent[1].lights[last.id].state = "yellow"
  /\ timers[Len(timers)] = Timer("green", last.id, None)

\* C4: no command step and no completion step takes a light directly from red
\* to green or from green to red; only the poll does.
C4_NoDirectSwitch ==
  [][ last'.op # "apply" =>
        \A l \in LightIds :
          /\ ~(trafficLights[l].state = "red" /\ trafficLights'[l].state = "green")
          /\ ~(trafficLights[l].state = "green" /\ trafficLights'[l].state = "red")
    ]_vars

\* C5: a flow request with a direction sets both lights yellow in its step, and
\* right after its completion both lights are green.
C5_FlowBothGreen ==
  /\ (last.op = "traffic-flow" /\ last.action # None) =>
       /\ Phase("light1") = "yellow" /\ Phase("light2") = "yellow"
       /\ timers # <<>>
       /\ timers[Len(timers)] = Timer("flow", None, last.action)
  /\ (last.op = "timer" /\ last.action = "flow") =>
       Phase("light1") = "green" /\ Phase("light2") = "green"

\* The completion of a flow request has fired: both lights are green, with a
\* later command's completion still pending.
C5_Witness ==
  /\ last.op = "timer"
  /\ last.action = "flow"
  /\ Phase("light1") = "green"
  /\ Phase("light2") = "green"
  /\ Len(timers) = 1

\* C6: emergency stop sets both lights yellow and broadcasts both yellow in its
\* step; its completion sets both red, pushes false for both and broadcasts
\* both red.
C6_EmergencyStop ==
  /\ last.op = "emergency-stop" =>
       /\ \A l \in LightIds : Phase(l) = "yellow"
       /\ Len(sent) = 1
       /\ sent[1].reason = <<"emergency-stop", "yellow">>
       /\ \A l \in LightIds : sent[1].lights[l].state = "yellow"
       /\ pushed = <<>>
  /\ (last.op = "timer" /\ last.action = "estop") =>
       /\ \A l \in LightIds : Phase(l) = "red"
       /\ pushed = <<Push("light1", FALSE), Push("light2", FALSE)>>
       /\ Len(sent) = 1
       /\ sent[1].reason = <<"emergency-stop", "red">>
       /\ \A l \in LightIds : sent[1].lights[l].state = "red"

\* The completion of an emergency stop has fired and pushed false for both.
C6_Witness ==
  /\ last.op = "timer"
  /\ last.action = "estop"
  /\ Phase("light1") = "red"
  /\ Phase("light2") = "red"
  /\ Len(pushed) = 2

\* C7: a toggle of a red light broadcasts it yellow in the command step and
\* schedules a completion; when that completion fires it broadcasts the light
\* green and the paired light is red.
C7_ToggleFromRed ==
  [][ /\ (last'.op = "control" /\ last'.action = "toggle"
            /\ trafficLights[last'.id].state = "red") =>
           /\ Len(sent') = 1
           /\ sent'[1].reason = <<"control", last'.id, "yellow">>
           /\ sent'[1].lights[last'.id].state = "yellow"
           /\ timers' = Append(timers, Timer("toggleGreen", last'.id, None))
      /\ (last'.op = "timer" /\ last'.action = "toggleGreen") =>
           /\ Len(sent') = 1
           /\ sent'[1].reason = <<"control", last'.id, "green">>
           /\ sent'[1].lights[last'.id].state = "green"
           /\ trafficLights'[OtherLight(last'.id)].state = "red" ]_vars

\* The completion of a toggle of a red light has fired and broadcast it green.
C7_Witness ==
  /\ last.op = "timer"
  /\ last.action = "toggleGreen"
  /\ Len(sent) = 1
  /\ sent[1].lights[last.id].state = "green"
  /\ Phase(OtherLight(last.id)) = "red"

\* C8: applying a poll result assigns each differing light its mapped phase
\* directly and stamps it, leaves the others untouched, and broadcasts exactly
\* once (tagged firebase) iff some light differed.
C8_PollApply ==
  [][ last'.op = "apply" =>
        \E r \in DOMAIN fetched :
          LET differs(l) == trafficLights[l].state # booleanToLightState(r.states[l])
          IN /\ \A l \in LightIds :
                  IF differs(l)
                  THEN /\ trafficLights'[l].state = booleanToLightState(r.states[l])
                       /\ trafficLights'[l].lastUpdated = now
                  ELSE trafficLights'[l] = trafficLights[l]
             /\ IF \E l \in LightIds : differs(l)
                THEN /\ Len(sent') = 1
                     /\ sent'[1].reason = <<"firebase", r.origin>>
                     /\ sent'[1].lights = trafficLights'
                ELSE sent' = <<>> ]_vars

\* The document read {gate01: true, gate02: false} has been applied over two
\* red lights stamped earlier: light1 is green, newly stamped, light2 untouched.
C8_Witness ==
  /\ last.op = "apply"
  /\ Len(sent) = 1
  /\ Phase("light1") = "green"
  /\ Phase("light2") = "red"
  /\ trafficLights["light1"].lastUpdated = 1
  /\ trafficLights["light2"].lastUpdated = 0

\* C9: a red command on a light that is red leaves it red in the command step.
C9_RedOnRedKeepsRed ==
  [][ (last'.op = "control" /\ last'.action = "red"
         /\ trafficLights[last'.id].state = "red") =>
        trafficLights'[last'.id].state = "red" ]_vars

IsPerType(step) ==
  /\ step.op = "mqtt"
  /\ step.status = 200
  /\ step.id \in VehicleTypes
  /\ Has(step.action, "count")

\* What a per-type message with a defined count writes to the two count fields.
PerTypeWritten(step) ==
  /\ vehicleData'.vehicles_by_type[step.id] = step.action.count
  /\ vehicleData'[CountField(step.id)] = step.action.count
  /\ \A v \in VehicleTypes \ {step.id} :
       vehicleData'.vehicles_by_type[v] = vehicleData.vehicles_by_type[v]
  /\ DOMAIN vehicleData' = DOMAIN vehicleData

\* C10 as stated: a per-type message with a defined count changes the count of
\* its category and its scalar alias and no other field of the record.
C10_PerTypeOnlyCounts ==
  [][ IsPerType(last') =>
        /\ PerTypeWritten(last')
        /\ \A k \in DOMAIN vehicleData \ {"vehicles_by_type", CountField(last'.id)} :
             vehicleData'[k] = vehicleData[k] ]_vars

\* C10 amended: ... and no other field of the record except timestamp, which
\* is set to the time of the message.
C10_PerTypeCountsAndTimestamp ==
  [][ IsPerType(last') =>
        /\ PerTypeWritten(last')
        /\ vehicleData'.timestamp = now
        /\ \A k \in DOMAIN vehicleData \
                      {"vehicles_by_type", CountField(last'.id), "timestamp"} :
             vehicleData'[k] = vehicleData[k] ]_vars

\* A truck count has been merged into a record that already held a car count
\* and a speed; the timestamp is the time of the message.
C10_Witness ==
  /\ last.op = "mqtt"
  /\ last.id = "truck"
  /\ Has(last.action, "count")
  /\ vehicleData.truck_count = 1
  /\ vehicleData.vehicles_by_type["truck"] = 1
  /\ vehicleData.car_count = 1
  /\ vehicleData.bspeed = 1
  /\ vehicleData.timestamp = 1

\* C11: in a step that broadcasts, the clients whose write threw, and only
\* they, leave the registry and lose their heartbeat timer; every other
\* registered client with an open stream has been written that broadcast's
\* payload.
C11_BroadcastIsolatesFailure ==
  [][sent' # <<>> =>
       /\ sseClients' = sseClients \ threw'
       /\ heartbeats' = heartbeats \ threw'
       /\ \A c \in sseClients \ threw' :
            streams[c] = "open" => received'[c] = sent']_vars

\* A broadcast in which one client's write threw and another client received.
C11_Witness ==
  /\ sent # <<>>
  /\ threw # {}
  /\ \E c \in sseClients : received[c] = sent

\* C12: after every step, the last state event written to each registered
\* client with an open stream carries exactly the current lights, flow record
\* and telemetry record.
C12_SubscribersCurrent ==
  \A c \in sseClients :
    streams[c] = "open" =>
      /\ received[c] # <<>>
      /\ received[c][1].lights = trafficLights
      /\ received[c][1].trafficFlow = trafficFlow
      /\ received[c][1].vehicleData = vehicleData

C14_MalformedDropped ==
  [][/\ (last'.op = "mqtt" /\ last'.status = 400) =>
          /\ UNCHANGED vehicleData
          /\ UNCHANGED hubVars
          /\ sent' = <<>>
     /\ (last.op = "mqtt" /\ last.status = 400 /\ IsPerType(last')) =>
          /\ vehicleData'.vehicles_by_type[last'.id] = last'.action.count
          /\ vehicleData'[CountField(last'.id)] = last'.action.count
          /\ vehicleData'.timestamp = now]_vars

\* A malformed message has arrived after the clock moved and after a count was
\* merged: the record still holds that count and the earlier timestamp.
C14_Witness ==
  /\ last.op = "mqtt"
  /\ last.status = 400
  /\ now = 1
  /\ vehicleData.timestamp = 0
  /\ vehicleData.car_count = 1

\* C15: in every reachable state vehicles_by_type has an entry for each of the
\* five categories, and the record has each count alias and each of the four
\* speed fields.
C15_CategoriesPresent ==
  /\ VehicleTypes \subseteq DOMAIN vehicleData.vehicles_by_type
  /\ \A v \in VehicleTypes : CountField(v) \in DOMAIN vehicleData
  /\ SpeedFields \subseteq DOMAIN vehicleData

\* C16: in every reachable state the registered clients are exactly the
\* clients whose heartbeat timer is active.
C16_RegistryIffTimer == \A c \in Clients : c \in sseClients <=> c \in heartbeats

\* One client has just been removed by a failed heartbeat write, after the
\* other was removed by a failed broadcast write or a disconnect, or while the
\* other is still registered.
C16_Witness ==
  /\ last.op = "heartbeat"
  /\ last.status = 500
  /\ last.id \notin sseClients
  /\ \E c \in Clients \ {last.id} : streams[c] # "new"

\* C17: a subscribe step leaves the client registered with its timer running,
\* and the first state event any client receives is written by its own
\* subscribe step, is tagged 'initial' and carries the lights, flow record and
\* telemetry record of that moment: no broadcast reaches a client earlier.
C17_InitialSnapshotFirst ==
  [][\A c \in Clients :
       /\ (last'.op = "subscribe" /\ last'.id = c /\ streams[c] = "new") =>
            c \in sseClients' /\ c \in heartbeats'
       /\ (received[c] = <<>> /\ received'[c] # <<>>) =>
            /\ last'.op = "subscribe"
            /\ last'.id = c
            /\ c \in sseClients'
            /\ received'[c][1].reason = <<"initial">>
            /\ received'[c][1].lights = trafficLights
            /\ received'[c][1].trafficFlow = trafficFlow
            /\ received'[c][1].vehicleData = vehicleData]_vars

\* A client has subscribed after the state had moved away from the start and
\* while the other client was already receiving broadcasts.
C17_Witness ==
  /\ last.op = "subscribe"
  /\ last.status = 200
  /\ received[last.id] # <<>>
  /\ received[last.id][1].reason = <<"initial">>
  /\ received[last.id][1].lights = trafficLights
  /\ \E l \in LightIds : Phase(l) = "yellow"
  /\ \E c \in sseClients \ {last.id} :
       received[c] # <<>> /\ received[c][1].reason # <<"initial">>

\* C18: a 'close' for a client that is no longer registered changes neither
\* the registry nor any timer; a 'close' removes that client and its timer
\* only; deleting twice equals deleting once; and a client that has left the
\* registry is written no state event afterwards.
C18_UnsubscribeIdempotent ==
  [][/\ (last'.op = "close" /\ last'.id \notin sseClients) =>
          sseClients' = sseClients /\ heartbeats' = heartbeats
     /\ last'.op = "close" =>
          /\ sseClients' = sseClients \ {last'.id}
          /\ heartbeats' = heartbeats \ {last'.id}
     /\ \A c \in Clients :
          /\ deleteClient(deleteClient(sseClients, c), c) = deleteClient(sseClients, c)
          /\ (streams[c] # "new" /\ c \notin sseClients) => received'[c] = received[c]]_vars

\* A 'close' has arrived for a client that a write failure had already
\* removed, while the other client is registered.
C18_Witness ==
  /\ last.op = "close"
  /\ last.action = "removed"
  /\ sseClients # {}

\* C19: a 'yellow' command, or a toggle that found the light yellow and set it
\* red, schedules no completion; a completion for that light that fires right
\* after it was scheduled by an earlier command and leaves the light in the
\* phase the latest command gave it.
C19_LastCommandWins ==
  [][(/\ last.op = "control"
      /\ last.status = 200
      /\ \/ last.action = "yellow"
         \/ last.action = "toggle" /\ Phase(last.id) = "red"
      /\ last'.op = "timer"
      /\ last'.id = last.id) =>
       trafficLights'[last.id].state = trafficLights[last.id].state]_vars

\* The step is a command that schedules a completion: green, red, a toggle
\* that found the light red or green, a flow direction, an emergency stop.
SchedulesCompletion(step) ==
  \/ /\ step.op = "control"
     /\ step.status = 200
     /\ \/ step.action \in {"green", "red"}
        \/ step.action = "toggle" /\ Phase(step.id) \in {"red", "green"}
  \/ step.op = "traffic-flow" /\ step.action # None
  \/ step.op = "emergency-stop"

\* The phases a completion of this kind writes.
CompletionWritten(step) ==
  CASE step.action \in {"green", "toggleGreen"} ->
         /\ trafficLights'[step.id].state = "green"
         /\ trafficLights'[OtherLight(step.id)].state = "red"
    [] step.action \in {"red", "toggleRed"} -> trafficLights'[step.id].state = "red"
    [] step.action = "flow" -> \A l \in LightIds : trafficLights'[l].state = "green"
    [] step.action = "estop" -> \A l \in LightIds : trafficLights'[l].state = "red"

\* The completions the handlers schedule: kind and light.
Completions ==
  ({"green", "red", "toggleRed", "toggleGreen"} \X LightIds)
    \cup {<<"flow", None>>, <<"estop", None>>}

IsPending(kind, id) ==
  \E i \in DOMAIN timers : timers[i].kind = kind /\ timers[i].lightId = id

\* C20: a command that schedules a completion is accepted whatever is pending
\* and adds exactly one completion behind the pending ones; a pending
\* completion leaves the queue only by firing, one per timer step, and the
\* step that fires it writes its phases and issues its pushes whatever was
\* commanded since; and every pending completion eventually fires.
C20_CompletionsAlwaysFire ==
  /\ [][/\ SchedulesCompletion(last') =>
             /\ last'.status = 200
             /\ Len(timers') = Len(timers) + 1
             /\ SubSeq(timers', 1, Len(timers)) = timers
        /\ \/ timers' = timers
           \/ Len(timers') = Len(timers) + 1 /\ SubSeq(timers', 1, Len(timers)) = timers
           \/ last'.op = "timer" /\ timers # <<>> /\ timers' = Tail(timers)
        /\ last'.op = "timer" =>
             /\ timers # <<>>
             /\ last'.action = Head(timers).kind
             /\ last'.id = Head(timers).lightId
             /\ CompletionWritten(last')
             /\ pushed' = TimerPushes(Head(timers))]_vars
  /\ \A c \in Completions :
       IsPending(c[1], c[2]) ~>
         (last.op = "timer" /\ last.action = c[1] /\ last.id = c[2])

\* A completion has fired although a later command had put another completion
\* behind it, which is still pending.
C20_Witness ==
  /\ last.op = "timer"
  /\ timers # <<>>

\* C21: with control commands, completions, the PATCH requests of the
\* completions, and poll fetches and applies in any order, and nobody else
\* writing the document, no reachable state has both lights green.
C21_NeverBothGreenUnderSync ==
  \A a, b \in LightIds : a # b => ~(Phase(a) = "green" /\ Phase(b) = "green")

\* C22: when the pushes of a completion have settled (one of them possibly
\* failed) and no command follows, the poll that comes next leaves every light
\* in the phase the completion gave it.
C22_FailedPushKeepsPhase ==
  [][last'.op = "apply" => \A l \in LightIds : Phase(l)' = Phase(l)]_vars

\* C23: a fetch or PATCH that fails changes no light (phase or lastUpdated),
\* no mirror entry, no timer and nothing of the document, and sends no
\* broadcast; no PATCH response, failed or not, touches a light, a timer or a
\* subscriber, and a control request for a light is answered 200 whatever
\* became of earlier pushes.
C23_RemoteFailureIsSilent ==
  [][/\ (last'.op \in {"fetch", "patch"} /\ last'.status = 500) =>
          /\ UNCHANGED <<trafficLights, firebaseGateMirror, firestore, timers>>
          /\ UNCHANGED hubVars
          /\ sent' = <<>>
          /\ pushed' = <<>>
     /\ last'.op = "patch" =>
          /\ UNCHANGED <<trafficLights, trafficFlow, timers>>
          /\ sent' = <<>>
     /\ (last'.op = "control" /\ last'.id \in LightIds) =>
          /\ last'.status = 200
          /\ sent' # <<>>
          /\ sent'[1].lights = trafficLights']_vars

\* The PATCH of a green completion has failed: the light is still green, the
\* document and the mirror still say closed.
C23_Witness ==
  /\ last.op = "patch"
  /\ last.status = 500
  /\ \E l \in LightIds :
       /\ Phase(l) = "green"
       /\ ~firestore[gateFieldName(lightIdToGateKey(l))]
       /\ ~firebaseGateMirror[l]

\* A completion for light l is pending.
HasPending(l) == \E i \in DOMAIN timers : timers[i].lightId = l

\* C24: a poll result applied while a light is yellow with its completion
\* pending sets the light to the polled phase at once and leaves the
\* completion pending; the completion, when it fires, writes the command's
\* terminal phase whatever the poll had written.
C24_PollDuringAmber ==
  [][/\ last'.op = "apply" =>
          \E r \in DOMAIN fetched :
            \A l \in LightIds :
              (Phase(l) = "yellow" /\ HasPending(l)) =>
                 /\ trafficLights'[l].state = booleanToLightState(r.states[l])
                 /\ timers' = timers
     /\ (last'.op = "timer" /\ last'.action \in {"green", "toggleGreen"}) =>
          trafficLights'[last'.id].state = "green"
     /\ (last'.op = "timer" /\ last'.action \in {"red", "toggleRed"}) =>
          trafficLights'[last'.id].state = "red"]_vars

\* A poll result has just turned a light red whose green completion is still
\* pending.
C24_Witness ==
  /\ last.op = "apply"
  /\ sent # <<>>
  /\ timers # <<>>
  /\ Head(timers).kind = "green"
  /\ Phase(Head(timers).lightId) = "red"

\* Every light shows the phase its gate field of the document maps to.
AgreesWithDocument ==
  \A l \in LightIds :
    Phase(l) = booleanToLightState(firestore[gateFieldName(lightIdToGateKey(l))])

\* C25: either commands keep arriving for ever, or from some point on every
\* light shows the phase mapped from its gate value in the document, for ever.
C25_ConvergesToDocument ==
  ([]<><<ControlEither>>_vars) \/ <>[]AgreesWithDocument

\* Commands, completions and pushes are over, a poll has been applied, and the
\* lights agree with a document that no longer says closed/closed.
C25_Witness ==
  /\ last.op = "apply"
  /\ timers = <<>>
  /\ patches = EmptyBag
  /\ AgreesWithDocument
  /\ \E l \in LightIds : Phase(l) = "green"

IsCommand(step) == step.op \in {"control", "traffic-flow", "emergency-stop"}

\* C26: an emergency stop puts its completion behind every completion already
\* pending; that completion fires only when all of those have fired, and sets
\* both lights red; and with both lights red and nothing pending, every step
\* that is not a command leaves both red.
C26_StopEndsRed ==
  [][/\ last'.op = "emergency-stop" =>
          timers' = Append(timers, Timer("estop", None, None))
     /\ (last'.op = "timer" /\ last'.action = "estop") =>
          /\ Head(timers).kind = "estop"
          /\ \A l \in LightIds : trafficLights'[l].state = "red"
     /\ (/\ \A l \in LightIds : Phase(l) = "red"
         /\ timers = <<>>
         /\ ~IsCommand(last')) =>
          \A l \in LightIds : trafficLights'[l].state = "red"]_vars

\* An emergency stop has been accepted while the completion of a flow
\* direction or of a toggle to green was pending; its own is behind it.
C26_Witness ==
  /\ last.op = "emergency-stop"
  /\ Len(timers) > 1
  /\ Head(timers).kind \in {"flow", "toggleGreen"}
  /\ timers[Len(timers)].kind = "estop"

\* C27: a green command sets its light yellow in the command step when the
\* light is not green, and leaves a light that is green as it is.
C27_GreenOnlyFromNotGreen ==
  [][(last'.op = "control" /\ last'.action = "green") =>
       trafficLights'[last'.id].state =
         IF Phase(last'.id) = "green" THEN "green" ELSE "yellow"]_vars

\* C28: a toggle of a green light does in its step and at its completion what
\* a red command does; a toggle of a red light does what a green command does,
\* the paired light included; a toggle of a yellow light sets it red in the
\* same step, pushes false for it and schedules nothing.
C28_ToggleDispatch ==
  [][/\ (last'.op = "control" /\ last'.action = "toggle" /\ last'.status = 200) =>
          CASE Phase(last'.id) = "green" ->
                 /\ trafficLights' = RedAnnounce(trafficLights, last'.id, now)
                 /\ Len(timers') = Len(timers) + 1
                 /\ timers'[Len(timers')].kind = "toggleRed"
                 /\ timers'[Len(timers')].lightId = last'.id
                 /\ pushed' = <<>>
                 /\ sent'[1].reason = <<"control", last'.id, "yellow">>
            [] Phase(last'.id) = "red" ->
                 /\ trafficLights' = GreenAnnounce(trafficLights, last'.id, now)
                 /\ Len(timers') = Len(timers) + 1
                 /\ timers'[Len(timers')].kind = "toggleGreen"
                 /\ timers'[Len(timers')].lightId = last'.id
                 /\ pushed' = <<>>
                 /\ sent'[1].reason = <<"control", last'.id, "yellow">>
            [] OTHER ->
                 /\ trafficLights'[last'.id].state = "red"
                 /\ trafficLights'[OtherLight(last'.id)] =
                      trafficLights[OtherLight(last'.id)]
                 /\ timers' = timers
                 /\ pushed' = <<Push(last'.id, FALSE)>>
                 /\ sent'[1].reason = <<"control", last'.id, "red">>
     /\ (last'.op = "timer" /\ last'.action = "toggleRed") =>
          /\ trafficLights' = RedComplete(trafficLights, last'.id, now)
          /\ pushed' = <<Push(last'.id, FALSE)>>
          /\ sent'[1].reason = <<"control", last'.id, "red">>
     /\ (last'.op = "timer" /\ last'.action = "toggleGreen") =>
          /\ trafficLights' = GreenComplete(trafficLights, last'.id, now)
          /\ pushed' = <<Push(last'.id, TRUE), Push(OtherLight(last'.id), FALSE)>>
          /\ sent'[1].reason = <<"control", last'.id, "green">>]_vars

\* A toggle has found its light yellow, inside the amber window of an earlier
\* command: the light is red, false was pushed, the earlier completion is
\* still pending.
C28_Witness ==
  /\ last.op = "control"
  /\ last.action = "toggle"
  /\ Phase(last.id) = "red"
  /\ pushed = <<Push(last.id, FALSE)>>
  /\ timers # <<>>

\* C29: a red command sets its light yellow in the command step, stamps it,
\* pushes nothing and schedules one completion; the completion sets that
\* light red, stamps it and pushes false for it alone; neither step changes
\* the paired light's phase or lastUpdated.
C29_RedFrame ==
  [][/\ (last'.op = "control" /\ last'.action = "red" /\ last'.status = 200) =>
          /\ trafficLights'[last'.id] = [state |-> "yellow", lastUpdated |-> now]
          /\ trafficLights'[OtherLight(last'.id)] = trafficLights[OtherLight(last'.id)]
          /\ pushed' = <<>>
          /\ timers' = Append(timers, Timer("red", last'.id, None))
     /\ (last'.op = "timer" /\ last'.action = "red") =>
          /\ trafficLights'[last'.id] = [state |-> "red", lastUpdated |-> now]
          /\ trafficLights'[OtherLight(last'.id)] = trafficLights[OtherLight(last'.id)]
          /\ pushed' = <<Push(last'.id, FALSE)>>]_vars

\* A red completion has fired at time 1 beside a paired light that is green
\* since time 0.
C29_Witness ==
  /\ last.op = "timer"
  /\ last.action = "red"
  /\ trafficLights[last.id] = [state |-> "red", lastUpdated |-> 1]
  /\ trafficLights[OtherLight(last.id)] = [state |-> "green", lastUpdated |-> 0]

\* C30: a yellow command sets its light yellow and stamps it, schedules
\* nothing, pushes nothing, and leaves the paired light, the flow record and
\* the gate mirror as they were; a yellow light stays yellow through every
\* step that is not a command, a completion or a poll result.
C30_YellowFrame ==
  [][/\ (last'.op = "control" /\ last'.action = "yellow" /\ last'.status = 200) =>
          /\ trafficLights'[last'.id] = [state |-> "yellow", lastUpdated |-> now]
          /\ trafficLights'[OtherLight(last'.id)] = trafficLights[OtherLight(last'.id)]
          /\ timers' = timers
          /\ pushed' = <<>>
          /\ patches' = patches
          /\ UNCHANGED <<trafficFlow, firebaseGateMirror>>
     /\ \A l \in LightIds :
          (Phase(l) = "yellow" /\ last'.op \notin {"control", "timer", "apply"}) =>
             trafficLights'[l].state = "yellow"]_vars

\* A yellow command at time 1 on a green light, with the paired light red
\* since time 0 and no completion pending.
C30_Witness ==
  /\ last.op = "control"
  /\ last.action = "yellow"
  /\ trafficLights[last.id] = [state |-> "yellow", lastUpdated |-> 1]
  /\ trafficLights[OtherLight(last.id)].lastUpdated = 0
  /\ timers = <<>>
  /\ firebaseGateMirror[last.id]

\* The step is a toggle request for a light that is yellow.
IsToggleOfYellow ==
  /\ last'.op = "control"
  /\ last'.action = "toggle"
  /\ last'.status = 200
  /\ Phase(last'.id) = "yellow"

\* A light is in its amber announcement: yellow, with a completion pending
\* that will write its phase.
InAmberAnnouncement(l) ==
  /\ Phase(l) = "yellow"
  /\ \E i \in DOMAIN timers :
       \/ timers[i].lightId = l
       \/ timers[i].kind \in {"flow", "estop"}
       \/ timers[i].kind \in {"green", "toggleGreen"} /\ timers[i].lightId = OtherLight(l)

GateOf(l) == gateFieldName(lightIdToGateKey(l))

\* Pushes are issued by completions and by a toggle of a yellow light only,
\* each for a light whose terminal phase the step has just written; a command
\* that announces yellow issues none; a green completion pushes true for its
\* light, then false for the paired light.
PushesAtTerminalOnly ==
  /\ pushed' # <<>> => (last'.op = "timer" \/ IsToggleOfYellow)
  /\ \A i \in DOMAIN pushed' :
       /\ trafficLights'[pushed'[i].lightId].state =
            booleanToLightState(pushed'[i].isGreen)
       /\ trafficLights'[pushed'[i].lightId].state # "yellow"
  /\ (IsCommand(last') /\ ~IsToggleOfYellow) => (pushed' = <<>> /\ patches' = patches)
  /\ IsToggleOfYellow => pushed' = <<Push(last'.id, FALSE)>>
  /\ IsGreenTimer(last') =>
       /\ pushed' = <<Push(last'.id, TRUE), Push(OtherLight(last'.id), FALSE)>>
       /\ patches' = patches (+) SetToBag({Push(last'.id, TRUE)})
                             (+) SetToBag({Push(OtherLight(last'.id), FALSE)})

\* The gate field of a light in its amber announcement keeps its value.
RemoteFixedDuringAmber ==
  \A l \in LightIds :
    InAmberAnnouncement(l) => firestore'[GateOf(l)] = firestore[GateOf(l)]

\* A gate field changes only when a PATCH already in flight for that light is
\* answered, and it takes that PATCH's value.
RemoteChangesByEarlierPush ==
  \A l \in LightIds :
    firestore'[GateOf(l)] # firestore[GateOf(l)] =>
      /\ last'.op = "patch"
      /\ BagIn(Push(l, firestore'[GateOf(l)]), patches)
      /\ patches' = patches (-) SetToBag({Push(l, firestore'[GateOf(l)])})

\* C31 as stated: pushes are issued only by the steps that write a terminal
\* phase, never by the step that announces yellow, a green completion pushes
\* true for its light and false for the paired one, and the gate field of a
\* light does not change while the light is in its amber announcement.
C31_RemoteFixedDuringAmber ==
  [][PushesAtTerminalOnly /\ RemoteFixedDuringAmber]_vars

\* C31 as amended: pushes are issued only by the steps that write a terminal
\* phase, never by the step that announces yellow, a green completion pushes
\* true for its light and false for the paired one, and a gate field changes
\* only when a PATCH issued by an earlier terminal-phase step is answered,
\* which may be during a later amber announcement.
C31_PushesOnlyAtTerminal ==
  [][PushesAtTerminalOnly /\ RemoteChangesByEarlierPush]_vars

\* The PATCH of light1's green completion has been answered while light1 is
\* in the amber announcement of the next command; the PATCH for light2 is
\* still in flight.
C31_Witness ==
  /\ last.op = "patch"
  /\ last.status = 200
  /\ InAmberAnnouncement("light1")
  /\ firestore = [gate01 |-> TRUE, gate02 |-> FALSE]
  /\ patches = SetToBag({Push("light2", FALSE)})

\* C32: a flow request without a direction changes nothing but the mode (and
\* that only when it carries one): direction, lastChanged, both lights, the
\* pending completions and the pushes stay as they were; a flow request with
\* a direction records it, stamps lastChanged, sets both lights yellow
\* whatever their phases and schedules one completion.
C32_FlowFrame ==
  [][last'.op = "traffic-flow" =>
       /\ trafficFlow'.mode = IF last'.id # None THEN last'.id ELSE trafficFlow.mode
       /\ pushed' = <<>>
       /\ patches' = patches
       /\ IF last'.action = None
          THEN /\ trafficFlow'.currentDirection = trafficFlow.currentDirection
               /\ trafficFlow'.lastChanged = trafficFlow.lastChanged
               /\ trafficLights' = trafficLights
               /\ timers' = timers
          ELSE /\ trafficFlow'.currentDirection = last'.action
               /\ trafficFlow'.lastChanged = now
               /\ \A l \in LightIds :
                    trafficLights'[l] = [state |-> "yellow", lastUpdated |-> now]
               /\ timers' = Append(timers, Timer("flow", None, last'.action))]_vars

\* A request carrying only a mode has arrived at time 1, after a direction
\* request of time 0 had turned both lights green: the direction, its stamp
\* and the lights are as that request left them.
C32_Witness ==
  /\ last.op = "traffic-flow"
  /\ last.id = "manual"
  /\ last.action = None
  /\ now = 1
  /\ trafficFlow = [mode |-> "manual", currentDirection |-> "outbound", lastChanged |-> 0]
  /\ \A l \in LightIds : trafficLights[l] = [state |-> "green", lastUpdated |-> 0]
  /\ timers = <<>>

\* The record after a message that merges the fields of list under the
\* truthy-replace rule: a listed field takes the incoming value when the
\* payload carries it and it is not zero, and keeps the prior value otherwise;
\* every other field but timestamp keeps the prior value.
MergedUnder(list, data) ==
  /\ DOMAIN vehicleData' = DOMAIN vehicleData
  /\ \A k \in DOMAIN vehicleData \ {"timestamp"} :
       vehicleData'[k] =
         IF k \in list /\ k \in DOMAIN data /\ data[k] # 0
         THEN data[k] ELSE vehicleData[k]

\* C33: a traffic_light message replaces green_light_duration,
\* vehicles_waiting and priority_vehicles, and a speeds message the four
\* speeds, each only by a value that is present and not zero; a zero or
\* missing value keeps the prior one, and no other field but timestamp
\* changes, whatever the payload carries.
C33_TruthyReplace ==
  [][/\ (last'.op = "mqtt" /\ last'.id = "traffic_light" /\ last'.status = 200) =>
          MergedUnder(LightFields, last'.action)
     /\ (last'.op = "mqtt" /\ last'.id = "speeds" /\ last'.status = 200) =>
          MergedUnder(SpeedFields, last'.action)]_vars

\* A traffic_light message carrying priority_vehicles 0 and car_count has
\* arrived when priority_vehicles held a non-zero value: that value is kept
\* and car_count is still 0.
C33_Witness ==
  /\ last.op = "mqtt"
  /\ last.id = "traffic_light"
  /\ last.action = [priority_vehicles |-> 0, car_count |-> MaxCount]
  /\ vehicleData.priority_vehicles = MaxCount
  /\ vehicleData.car_count = 0
  /\ vehicleData.tspeed = MaxCount

\* C34: a main-topic message gives every top-level field whose key the payload
\* carries the payload's value, zero included, leaves every field whose key is
\* absent as it was, stamps timestamp, and changes no light and nothing of the
\* flow record.
C34_MainOverwritesPresentKeys ==
  [][(last'.op = "mqtt" /\ last'.id = "vehicles" /\ last'.status = 200) =>
       LET data == last'.action IN
       /\ DOMAIN vehicleData' = DOMAIN vehicleData \cup DOMAIN data
       /\ \A k \in DOMAIN data \ {"timestamp"} : vehicleData'[k] = data[k]
       /\ \A k \in DOMAIN vehicleData \ (DOMAIN data \cup {"timestamp"}) :
            vehicleData'[k] = vehicleData[k]
       /\ vehicleData'.timestamp = now
       /\ UNCHANGED <<trafficLights, trafficFlow, timers>>]_vars

\* A main-topic message carrying car_count 0 has arrived after a car count of
\* MaxCount, a speed, a yellow command and a mode change: car_count is 0, the
\* category count, the speed, the yellow light and the mode are as before.
C34_Witness ==
  /\ last.op = "mqtt"
  /\ last.id = "vehicles"
  /\ last.action = [car_count |-> 0]
  /\ vehicleData.car_count = 0
  /\ vehicleData.vehicles_by_type["car"] = MaxCount
  /\ vehicleData.bspeed = MaxCount
  /\ Phase("light1") = "yellow"
  /\ trafficFlow.mode = "manual"

\* The record without its timestamp.
SnapshotAside(vd) == [k \in DOMAIN vd \ {"timestamp"} |-> vd[k]]

\* The payload laid over the record, key by key.
Overlay(vd, data) ==
  [k \in (DOMAIN vd \cup DOMAIN data) \ {"timestamp"} |->
     IF k \in DOMAIN data THEN data[k] ELSE vd[k]]

IsMainOrPush(step) ==
  \/ step.op = "mqtt" /\ step.id = "vehicles" /\ step.status = 200
  \/ step.op = "vehicles"

\* C35: from any record and for any payload, POST /api/vehicles and a
\* main-topic message leave the same record, timestamp aside: the payload laid
\* over the prior record; each is followed by exactly one broadcast, which
\* carries that record.
C35_PushEqualsMain ==
  [][IsMainOrPush(last') =>
       /\ SnapshotAside(vehicleData') = Overlay(vehicleData, last'.action)
       /\ Len(sent') = 1
       /\ sent'[1].vehicleData = vehicleData'
       /\ sent'[1].reason = IF last'.op = "mqtt" THEN <<"mqtt", "vehicle-data">>
                            ELSE <<"vehicles", "update">>]_vars

\* An HTTP push has replaced vehicles_by_type in a record to which an earlier
\* payload had added the key lane.
C35_Witness ==
  /\ last.op = "vehicles"
  /\ last.action = [vehicles_by_type |-> [car |-> MaxCount]]
  /\ vehicleData.vehicles_by_type = [car |-> MaxCount]
  /\ "lane" \in DOMAIN vehicleData
  /\ vehicleData.car_count = MaxCount
  /\ Len(sent) = 1

\* C36: in every reachable state, each of the five categories has an entry in
\* vehicles_by_type and that entry equals the category's scalar count field.
C36_CountsMirrorAliases ==
  \A v \in VehicleTypes :
    /\ v \in DOMAIN vehicleData.vehicles_by_type
    /\ vehicleData.vehicles_by_type[v] = vehicleData[CountField(v)]

====
